---- MODULE Spec2Model ----
(***************************************************************************)
(* PDF parser microservice (services/pdf-parser/main.py).                  *)
(*                                                                         *)
(* Two handlers: health_check (GET /health) and parse_pdf (POST /parse).   *)
(* parse_pdf is modelled statement group by statement group; every local   *)
(* of the handler lives in the frame of its call.  Strings are sequences   *)
(* of one-character strings.  The PDF library (PyPDF2) and the upload      *)
(* stream are the environment: what they return or raise for a given       *)
(* upload is part of the upload drawn when the request arrives.            *)
(*                                                                         *)
(* A request is in stage X from the moment the handler runs the statements *)
(* of step X (validated: 35-36, read: 40-41, extracted: 44-53,             *)
(* assembled: 55-72) until it runs the next step's; an exception raised by *)
(* those statements is pending in that stage until it leaves the handler.  *)
(* The logger is written and never read by the handlers: it is left out.   *)
(***************************************************************************)
EXTENDS Integers, Sequences, FiniteSets, TLC

\* Longest document (in pages) the uploads are drawn from.
MaxPages == 3
\* Number of /parse requests the hosting runtime handles concurrently.
NumConc == 2

Slots == 1..NumConc

----------------------------------------------------------------------------
(* Values *)

\* Python None and str as JSON-serialisable values.
None == [is_none |-> TRUE, val |-> ""]
Str(s) == [is_none |-> FALSE, val |-> s]

\* What page.extract_text() does for one page: returns a str, returns None,
\* or raises.
StrPage(s) == [kind |-> "str", val |-> s]
NonePage == [kind |-> "none", val |-> <<>>]
RaisePage == [kind |-> "raise", val |-> <<>>]
PageOutcomes == {StrPage(<<>>), StrPage(<<"a">>), NonePage, RaisePage}

\* reader.metadata: None, or a dictionary keyed by PDF metadata tags.
InfoKeys == {"/Author", "/Title", "/CreationDate"}
InfoValue(k) == CASE k = "/Author" -> "Ann"
                  [] k = "/Title" -> "Report"
                  [] OTHER -> "D:2024"
NoInfo == [present |-> FALSE, dict |-> [k \in {} |-> ""]]
InfoDict(S) == [present |-> TRUE, dict |-> [k \in S |-> InfoValue(k)]]
Infos == {NoInfo} \cup {InfoDict(S) : S \in SUBSET InfoKeys}

\* The bytes of an upload, identified with what the PDF library makes of
\* them: PdfReader(bytes) raises (valid = FALSE) or yields pages and metadata.
NoBody == [valid |-> FALSE, pages |-> <<>>, info |-> NoInfo]
PdfBody(p, i) == [valid |-> TRUE, pages |-> p, info |-> i]
PageSeqs == UNION {[1..n -> PageOutcomes] : n \in 0..MaxPages}
Bodies == {NoBody} \cup {PdfBody(p, i) : p \in PageSeqs, i \in Infos}

Filenames == { <<"a", ".", "p", "d", "f">>,
               <<"r", ".", "P", "d", "F">>,
               <<"n", ".", "t", "x", "t">>,
               <<"a", "p", "d", "f">>,
               <<>> }

\* UploadFile: filename, whether its stream can be read, and its bytes.
Uploads == [filename : Filenames, readable : BOOLEAN, body : Bodies]
NoUpload == [filename |-> <<>>, readable |-> FALSE, body |-> NoBody]

\* Uploads of the concurrent specification: one per outcome of parse_pdf.
ConcUploads ==
    { [filename |-> <<"n", ".", "t", "x", "t">>, readable |-> TRUE,
       body |-> PdfBody(<<StrPage(<<"a">>)>>, NoInfo)],
      [filename |-> <<"a", ".", "p", "d", "f">>, readable |-> TRUE,
       body |-> NoBody],
      [filename |-> <<"a", ".", "p", "d", "f">>, readable |-> FALSE,
       body |-> PdfBody(<<StrPage(<<"a">>)>>, NoInfo)],
      [filename |-> <<"a", ".", "p", "d", "f">>, readable |-> TRUE,
       body |-> PdfBody(<<StrPage(<<"a">>), StrPage(<<>>)>>, InfoDict(InfoKeys))],
      [filename |-> <<"r", ".", "P", "d", "F">>, readable |-> TRUE,
       body |-> PdfBody(<<StrPage(<<"a">>)>>, NoInfo)],
      [filename |-> <<"a", ".", "p", "d", "f">>, readable |-> TRUE,
       body |-> PdfBody(<<NonePage>>, InfoDict({"/Title"}))],
      [filename |-> <<"a", ".", "p", "d", "f">>, readable |-> TRUE,
       body |-> PdfBody(<<StrPage(<<>>), RaisePage>>, NoInfo)] }

\* Exceptions in flight.
NoExc == [type |-> "none", status_code |-> 0, text |-> <<>>]
Error(msg) == [type |-> "Exception", status_code |-> 0, text |-> msg]
HTTPException(code, detail) ==
    [type |-> "HTTPException", status_code |-> code, text |-> detail]

\* What the environment's failures say.
ReadErrorText == <<"I/O operation on closed file">>
ReaderErrorText == <<"EOF marker not found">>
PageErrorText == <<"page content stream is broken">>

\* Responses.
NoResponse == [status |-> 0, body |-> [k \in {} |-> ""]]
NoReader == [pages |-> <<>>, metadata |-> NoInfo]
NoDict == [k \in {} |-> ""]
NoHealth == [status |-> 0, body |-> [k \in {} |-> ""], after_error |-> FALSE]

----------------------------------------------------------------------------
(* Pure functions of the handlers *)

\* str.lower(), per character, over the alphabet of Filenames.
lower_char(c) == CASE c = "P" -> "p"
                   [] c = "D" -> "d"
                   [] c = "F" -> "f"
                   [] c = "R" -> "r"
                   [] OTHER -> c
lower(s) == [i \in 1..Len(s) |-> lower_char(s[i])]

\* str.endswith(suffix)
endswith(s, suffix) ==
    /\ Len(s) >= Len(suffix)
    /\ SubSeq(s, Len(s) - Len(suffix) + 1, Len(s)) = suffix

PdfSuffixNoDot == <<"p", "d", "f">>
\* The literal '.pdf' of the validation.
PdfSuffix == <<".", "p", "d", "f">>

\* file.filename.lower().endswith('.pdf')
is_pdf_name(filename) == endswith(lower(filename), PdfSuffix)

not_a_pdf_as_500 == HTTPException(500, <<"File must be a PDF">>)
\* raise HTTPException(status_code=400, detail="File must be a PDF")
not_a_pdf == HTTPException(400, <<"File must be a PDF">>)

parse_failed_no_text(e) == HTTPException(500, <<"PDF parsing failed">>)
\* raise HTTPException(status_code=500, detail=f"PDF parsing failed: {str(e)}")
parse_failed(e) == HTTPException(500, <<"PDF parsing failed: ">> \o e.text)

page_sep_space == <<" ">>
\* The separator literal of "\n".join(text_parts).
page_sep == <<"\n">>

\* str.join raises TypeError at the first item that is not a str: its
\* 1-based position, 0 when every item is a str.
first_non_str(parts) ==
    LET bad == {i \in 1..Len(parts) : parts[i].kind # "str"}
    IN  IF bad = {} THEN 0 ELSE CHOOSE i \in bad : \A j \in bad : i <= j

join_type_error(parts) ==
    Error(<<"sequence item ", ToString(first_non_str(parts) - 1),
            ": expected str instance, NoneType found">>)

\* sep.join(parts) for parts that are all str.
RECURSIVE join_str(_, _)
join_str(sep, parts) ==
    IF parts = <<>> THEN <<>>
    ELSE IF Len(parts) = 1 THEN parts[1].val
    ELSE parts[1].val \o sep \o join_str(sep, Tail(parts))

len_pages_with_text(rd) ==
    Cardinality({i \in 1..Len(rd.pages) :
                    rd.pages[i].kind = "str" /\ rd.pages[i].val # <<>>})
\* len(reader.pages)
len_pages(rd) == Len(rd.pages)

dict_get_default_empty(d, k) == IF k \in DOMAIN d THEN Str(d[k]) ELSE Str("")
\* reader.metadata.get(k)
dict_get(d, k) == IF k \in DOMAIN d THEN Str(d[k]) ELSE None

\* Truth value of reader.metadata: None and the empty dictionary are falsy.
truthy(info) == info.present /\ DOMAIN info.dict # {}

\* The metadata dictionary of the response.
build_metadata(rd) ==
    LET base == [pages |-> len_pages(rd), author |-> None, title |-> None,
                 createdDate |-> None]
    IN  IF truthy(rd.metadata)
        THEN [base EXCEPT !.author = dict_get(rd.metadata.dict, "/Author"),
                          !.title = dict_get(rd.metadata.dict, "/Title"),
                          !.createdDate =
                              dict_get(rd.metadata.dict, "/CreationDate")]
        ELSE base

health_check_degraded(failed) ==
    IF failed
    THEN [status |-> 503, body |-> [status |-> "degraded", service |-> "pdf-parser"]]
    ELSE [status |-> 200, body |-> [status |-> "healthy", service |-> "pdf-parser"]]
\* return {"status": "healthy", "service": "pdf-parser"}; its argument is
\* the service's history, which the handler does not look at.
health_check(failed) ==
    [status |-> 200, body |-> [status |-> "healthy", service |-> "pdf-parser"]]

SharedFrame(r) == 1
\* The frame holding the locals of the call handling request r: one per call.
Frame(r) == r

----------------------------------------------------------------------------
(* State *)

VARIABLES
    upload,      \* per request: the file argument of parse_pdf
    pc,          \* per request: the stage of the handler
    exc,         \* per request: the exception in flight, NoExc when none
    resp,        \* per request: the response sent
    contents,    \* per frame: local contents
    reader,      \* per frame: local reader
    page_num,    \* per frame: number of pages the for loop has consumed
    text_parts,  \* per frame: local text_parts
    full_text,   \* per frame: local full_text
    metadata,    \* per frame: local metadata
    health,      \* the last response of GET /health
    calls,       \* history, per request: calls made on upload and library
    stages,      \* history, per request: stages gone through
    raised,      \* history, per request: exceptions raised inside the try
    failed_before \* history: some /parse request has ended in 400 or 500

locals == <<contents, reader, page_num, text_parts, full_text, metadata>>
history == <<calls, stages, raised, failed_before>>
parse_vars == <<upload, pc, exc, resp, locals, history>>
vars == <<parse_vars, health>>

Init ==
    /\ upload = [r \in Slots |-> NoUpload]
    /\ pc = [r \in Slots |-> "idle"]
    /\ exc = [r \in Slots |-> NoExc]
    /\ resp = [r \in Slots |-> NoResponse]
    /\ contents = [f \in Slots |-> NoBody]
    /\ reader = [f \in Slots |-> NoReader]
    /\ page_num = [f \in Slots |-> 0]
    /\ text_parts = [f \in Slots |-> <<>>]
    /\ full_text = [f \in Slots |-> <<>>]
    /\ metadata = [f \in Slots |-> NoDict]
    /\ health = NoHealth
    /\ calls = [r \in Slots |-> <<>>]
    /\ stages = [r \in Slots |-> <<>>]
    /\ raised = [r \in Slots |-> <<>>]
    /\ failed_before = FALSE

----------------------------------------------------------------------------
(* POST /parse *)

\* The request arrives with its upload bound to the file argument.
Receive(r, U) ==
    /\ pc[r] = "idle"
    /\ \E u \in U : upload' = [upload EXCEPT ![r] = u]
    /\ pc' = [pc EXCEPT ![r] = "received"]
    /\ stages' = [stages EXCEPT ![r] = <<"received">>]
    /\ UNCHANGED <<exc, resp, locals, health, calls, raised, failed_before>>

\* if not file.filename.lower().endswith('.pdf'): raise HTTPException(400)
Validate(r) ==
    /\ pc[r] = "received"
    /\ pc' = [pc EXCEPT ![r] = "validated"]
    /\ stages' = [stages EXCEPT ![r] = Append(@, "validated")]
    /\ exc' = [exc EXCEPT ![r] = IF is_pdf_name(upload[r].filename)
                                 THEN NoExc ELSE not_a_pdf]
    /\ UNCHANGED <<upload, resp, locals, health, calls, raised, failed_before>>

\* contents = await file.read(); pdf_file = io.BytesIO(contents)
ReadUpload(r) ==
    /\ pc[r] = "validated"
    /\ exc[r] = NoExc
    /\ pc' = [pc EXCEPT ![r] = "read"]
    /\ stages' = [stages EXCEPT ![r] = Append(@, "read")]
    /\ calls' = [calls EXCEPT ![r] = Append(@, "read")]
    /\ IF upload[r].readable
       THEN /\ contents' = [contents EXCEPT ![Frame(r)] = upload[r].body]
            /\ UNCHANGED <<exc, raised>>
       ELSE /\ exc' = [exc EXCEPT ![r] = Error(ReadErrorText)]
            /\ raised' = [raised EXCEPT ![r] = Append(@, Error(ReadErrorText))]
            /\ UNCHANGED contents
    /\ UNCHANGED <<upload, resp, reader, page_num, text_parts, full_text,
                   metadata, health, failed_before>>

\* reader = PdfReader(pdf_file); text_parts = []; start of the for loop
OpenReader(r) ==
    /\ pc[r] = "read"
    /\ exc[r] = NoExc
    /\ pc' = [pc EXCEPT ![r] = "extracted"]
    /\ stages' = [stages EXCEPT ![r] = Append(@, "extracted")]
    /\ calls' = [calls EXCEPT ![r] = Append(@, "PdfReader")]
    /\ IF contents[Frame(r)].valid
       THEN /\ reader' = [reader EXCEPT ![Frame(r)] =
                             [pages |-> contents[Frame(r)].pages,
                              metadata |-> contents[Frame(r)].info]]
            /\ text_parts' = [text_parts EXCEPT ![Frame(r)] = <<>>]
            /\ page_num' = [page_num EXCEPT ![Frame(r)] = 0]
            /\ UNCHANGED <<exc, raised>>
       ELSE /\ exc' = [exc EXCEPT ![r] = Error(ReaderErrorText)]
            /\ raised' = [raised EXCEPT ![r] = Append(@, Error(ReaderErrorText))]
            /\ UNCHANGED <<reader, text_parts, page_num>>
    /\ UNCHANGED <<upload, resp, contents, full_text, metadata, health,
                   failed_before>>

\* One iteration of the for loop: page_text = page.extract_text();
\* text_parts.append(page_text)
ExtractPage(r) ==
    /\ pc[r] = "extracted"
    /\ exc[r] = NoExc
    /\ page_num[Frame(r)] < Len(reader[Frame(r)].pages)
    /\ calls' = [calls EXCEPT ![r] = Append(@, "extract_text")]
    /\ LET page == reader[Frame(r)].pages[page_num[Frame(r)] + 1]
       IN  IF page.kind = "raise"
           THEN /\ exc' = [exc EXCEPT ![r] = Error(PageErrorText)]
                /\ raised' = [raised EXCEPT ![r] = Append(@, Error(PageErrorText))]
                /\ UNCHANGED <<text_parts, page_num>>
           ELSE /\ text_parts' = [text_parts EXCEPT ![Frame(r)] = Append(@, page)]
                /\ page_num' = [page_num EXCEPT ![Frame(r)] = @ + 1]
                /\ UNCHANGED <<exc, raised>>
    /\ UNCHANGED <<upload, pc, resp, contents, reader, full_text, metadata,
                   health, stages, failed_before>>

\* After the loop: full_text = "\n".join(text_parts); metadata = {...}
Assemble(r) ==
    /\ pc[r] = "extracted"
    /\ exc[r] = NoExc
    /\ page_num[Frame(r)] >= Len(reader[Frame(r)].pages)
    /\ pc' = [pc EXCEPT ![r] = "assembled"]
    /\ stages' = [stages EXCEPT ![r] = Append(@, "assembled")]
    /\ IF first_non_str(text_parts[Frame(r)]) # 0
       THEN /\ exc' = [exc EXCEPT ![r] = join_type_error(text_parts[Frame(r)])]
            /\ raised' = [raised EXCEPT ![r] =
                             Append(@, join_type_error(text_parts[Frame(r)]))]
            /\ UNCHANGED <<full_text, metadata>>
       ELSE /\ full_text' = [full_text EXCEPT ![Frame(r)] =
                                join_str(page_sep, text_parts[Frame(r)])]
            /\ metadata' = [metadata EXCEPT ![Frame(r)] =
                               build_metadata(reader[Frame(r)])]
            /\ UNCHANGED <<exc, raised>>
    /\ UNCHANGED <<upload, resp, contents, reader, page_num, text_parts,
                   health, calls, failed_before>>

\* The frame of the call is gone once the handler is left.
Released(f) ==
    /\ contents' = [contents EXCEPT ![f] = NoBody]
    /\ reader' = [reader EXCEPT ![f] = NoReader]
    /\ page_num' = [page_num EXCEPT ![f] = 0]
    /\ text_parts' = [text_parts EXCEPT ![f] = <<>>]
    /\ full_text' = [full_text EXCEPT ![f] = <<>>]
    /\ metadata' = [metadata EXCEPT ![f] = NoDict]

\* return JSONResponse(content={"text": full_text, "metadata": metadata})
Respond(r) ==
    /\ pc[r] = "assembled"
    /\ exc[r] = NoExc
    /\ resp' = [resp EXCEPT ![r] =
                   [status |-> 200,
                    body |-> [text |-> full_text[Frame(r)],
                              metadata |-> metadata[Frame(r)]]]]
    /\ pc' = [pc EXCEPT ![r] = "responded"]
    /\ stages' = [stages EXCEPT ![r] = Append(@, "responded")]
    /\ Released(Frame(r))
    /\ UNCHANGED <<upload, exc, health, calls, raised, failed_before>>

\* except Exception as e: raise HTTPException(status_code=500, ...)
Except(r) ==
    /\ exc[r].type = "Exception"
    /\ exc' = [exc EXCEPT ![r] = parse_failed(@)]
    /\ UNCHANGED <<upload, pc, resp, locals, health, history>>

\* An HTTPException leaves the handler: the response carries its status
\* code and its detail.
RespondError(r) ==
    /\ exc[r].type = "HTTPException"
    /\ resp' = [resp EXCEPT ![r] =
                   [status |-> exc[r].status_code,
                    body |-> [detail |-> exc[r].text]]]
    /\ exc' = [exc EXCEPT ![r] = NoExc]
    /\ pc' = [pc EXCEPT ![r] = "responded"]
    /\ stages' = [stages EXCEPT ![r] = Append(@, "responded")]
    /\ failed_before' = TRUE
    /\ Released(Frame(r))
    /\ UNCHANGED <<upload, health, calls, raised>>

\* The response is delivered and the request is over.
Complete(r) ==
    /\ pc[r] = "responded"
    /\ pc' = [pc EXCEPT ![r] = "idle"]
    /\ upload' = [upload EXCEPT ![r] = NoUpload]
    /\ resp' = [resp EXCEPT ![r] = NoResponse]
    /\ calls' = [calls EXCEPT ![r] = <<>>]
    /\ stages' = [stages EXCEPT ![r] = <<>>]
    /\ raised' = [raised EXCEPT ![r] = <<>>]
    /\ UNCHANGED <<exc, locals, health, failed_before>>

----------------------------------------------------------------------------
(* GET /health *)

GetHealth ==
    /\ health' = [status |-> health_check(failed_before).status,
                  body |-> health_check(failed_before).body,
                  after_error |-> failed_before]
    /\ UNCHANGED parse_vars

----------------------------------------------------------------------------
(* Specifications *)

parse_pdf(r, U) ==
    \/ Receive(r, U)
    \/ Validate(r)
    \/ ReadUpload(r)
    \/ OpenReader(r)
    \/ ExtractPage(r)
    \/ Assemble(r)
    \/ Respond(r)
    \/ Except(r)
    \/ RespondError(r)
    \/ Complete(r)

\* One request at a time, every upload.
Next == parse_pdf(1, Uploads) \/ GetHealth
Spec == Init /\ [][Next]_vars

\* NumConc requests in flight, interleaved statement group by statement group.
NextConc == (\E r \in Slots : parse_pdf(r, ConcUploads)) \/ GetHealth
SpecConc == Init /\ [][NextConc]_vars

----------------------------------------------------------------------------
(* Vocabulary of the properties *)

\* The name ends with ".pdf" in any mix of upper and lower case.
HasPdfSuffix(name) ==
    /\ Len(name) >= 4
    /\ name[Len(name) - 3] = "."
    /\ name[Len(name) - 2] \in {"p", "P"}
    /\ name[Len(name) - 1] \in {"d", "D"}
    /\ name[Len(name)] \in {"f", "F"}

Count(seq, x) == Cardinality({i \in 1..Len(seq) : seq[i] = x})

\* Number of characters of the joined text that precede page i.
RECURSIVE Offset(_, _)
Offset(pages, i) ==
    IF i <= 1 THEN 0 ELSE Offset(pages, i - 1) + Len(pages[i - 1].val) + 1

\* text is the pages' strings in page order, one newline between neighbours.
IsJoined(text, pages) ==
    LET n == Len(pages)
    IN  /\ Len(text) = IF n = 0 THEN 0 ELSE Offset(pages, n) + Len(pages[n].val)
        /\ \A i \in 1..n :
              /\ SubSeq(text, Offset(pages, i) + 1,
                        Offset(pages, i) + Len(pages[i].val)) = pages[i].val
              /\ i < n => text[Offset(pages, i) + Len(pages[i].val) + 1] = "\n"

\* detail contains text as a contiguous part.
Embeds(detail, text) ==
    \E k \in 0..(Len(detail) - Len(text)) :
        SubSeq(detail, k + 1, k + Len(text)) = text

\* The page yields nothing: an empty string or None.
YieldsNothing(page) ==
    page.kind = "none" \/ (page.kind = "str" /\ page.val = <<>>)

\* The upload is a readable, well-formed PDF none of whose pages raises.
Extractable(u) ==
    /\ u.readable
    /\ u.body.valid
    /\ \A i \in 1..Len(u.body.pages) : u.body.pages[i].kind # "raise"

\* The value the response reports for a document-metadata key.
DocumentField(u, key) ==
    IF u.body.info.present /\ key \in DOMAIN u.body.info.dict
    THEN Str(u.body.info.dict[key])
    ELSE None

StageOrder ==
    <<"received", "validated", "read", "extracted", "assembled", "responded">>

HealthyPayload == [status |-> "healthy", service |-> "pdf-parser"]

\* The response parse_pdf gives to upload u when it is the only request.
SoloResponse(u) ==
    LET failure(e) == [status |-> parse_failed(e).status_code,
                       body |-> [detail |-> parse_failed(e).text]]
        pages == u.body.pages
        raising == {i \in 1..Len(pages) : pages[i].kind = "raise"}
    IN  IF ~is_pdf_name(u.filename)
        THEN [status |-> not_a_pdf.status_code, body |-> [detail |-> not_a_pdf.text]]
        ELSE IF ~u.readable THEN failure(Error(ReadErrorText))
        ELSE IF ~u.body.valid THEN failure(Error(ReaderErrorText))
        ELSE IF raising # {} THEN failure(Error(PageErrorText))
        ELSE IF first_non_str(pages) # 0 THEN failure(join_type_error(pages))
        ELSE [status |-> 200,
              body |-> [text |-> join_str(page_sep, pages),
                        metadata |-> build_metadata(
                            [pages |-> pages, metadata |-> u.body.info])]]

----------------------------------------------------------------------------
(* Properties *)

\* C1: a request whose filename does not end with ".pdf" (any case) makes no
\* read and no extraction call at any point, and its response is 400.
C1_NonPdfRejectedUnread ==
    \A r \in Slots :
        (pc[r] # "idle" /\ ~HasPdfSuffix(upload[r].filename)) =>
            /\ calls[r] = <<>>
            /\ pc[r] = "responded" => resp[r].status = 400

C1_Witness ==
    \E r \in Slots :
        /\ pc[r] = "responded"
        /\ upload[r].filename = <<"a", "p", "d", "f">>
        /\ upload[r].body.valid
        /\ resp[r].status = 400

\* C2: when a step inside the try raised, the response is 500, its detail
\* embeds the text of the exception, and it has no text or metadata field;
\* no response exists before that.
C2_RaiseGives500WithText ==
    \A r \in Slots :
        raised[r] # <<>> =>
            /\ HasPdfSuffix(upload[r].filename)
            /\ pc[r] # "responded" => resp[r] = NoResponse
            /\ pc[r] = "responded" =>
                  /\ resp[r].status = 500
                  /\ DOMAIN resp[r].body = {"detail"}
                  /\ Embeds(resp[r].body.detail, raised[r][1].text)

C2_Witness ==
    \E r \in Slots :
        /\ pc[r] = "responded"
        /\ upload[r].readable
        /\ ~upload[r].body.valid
        /\ raised[r] = <<Error(ReaderErrorText)>>
        /\ resp[r].status = 500

\* C3: in a 200 response, text is the pages' extracted strings in page
\* order with exactly one newline between consecutive pages, empty pages
\* included.
C3_TextIsNewlineJoin ==
    \A r \in Slots :
        (pc[r] = "responded" /\ resp[r].status = 200) =>
            IsJoined(resp[r].body.text, upload[r].body.pages)

C3_Witness ==
    \E r \in Slots :
        /\ pc[r] = "responded"
        /\ resp[r].status = 200
        /\ Len(upload[r].body.pages) = 3
        /\ Count(upload[r].body.pages, StrPage(<<>>)) = 1
        /\ Count(resp[r].body.text, "\n") = 2

\* C4: in a 200 response, metadata.pages is the document's number of pages,
\* which is the number of extract_text calls made.
C4_PagesIsPageCount ==
    \A r \in Slots :
        (pc[r] = "responded" /\ resp[r].status = 200) =>
            /\ resp[r].body.metadata.pages = Len(upload[r].body.pages)
            /\ resp[r].body.metadata.pages = Count(calls[r], "extract_text")

C4_Witness ==
    \E r \in Slots :
        /\ pc[r] = "responded"
        /\ resp[r].status = 200
        /\ Len(upload[r].body.pages) = 2
        /\ upload[r].body.pages[1] = StrPage(<<>>)
        /\ resp[r].body.metadata.pages = 2

\* C5: a 200 response's metadata has exactly the keys pages, author, title,
\* createdDate; author, title, createdDate are the document's /Author,
\* /Title, /CreationDate where the dictionary has them and null otherwise;
\* an extractable document with all pages str gets 200 whatever its metadata.
C5_MetadataFieldsOrNull ==
    \A r \in Slots :
        pc[r] = "responded" =>
            /\ resp[r].status = 200 =>
                  /\ DOMAIN resp[r].body.metadata =
                         {"pages", "author", "title", "createdDate"}
                  /\ resp[r].body.metadata.author =
                         DocumentField(upload[r], "/Author")
                  /\ resp[r].body.metadata.title =
                         DocumentField(upload[r], "/Title")
                  /\ resp[r].body.metadata.createdDate =
                         DocumentField(upload[r], "/CreationDate")
            /\ ( /\ HasPdfSuffix(upload[r].filename)
                 /\ Extractable(upload[r])
                 /\ \A i \in 1..Len(upload[r].body.pages) :
                        upload[r].body.pages[i].kind = "str" )
               => resp[r].status = 200

C5_Witness ==
    \E r \in Slots :
        /\ pc[r] = "responded"
        /\ resp[r].status = 200
        /\ upload[r].body.info = InfoDict({"/Title"})
        /\ resp[r].body.metadata.title = Str("Report")
        /\ resp[r].body.metadata.author = None

\* C6: a '.pdf' upload that is extractable and has a page yielding nothing
\* (an empty string or None) ends in 200, that page contributing an empty
\* segment to the joined text.
C6_NothingPageIsNotAnError ==
    \A r \in Slots :
        ( /\ pc[r] = "responded"
          /\ HasPdfSuffix(upload[r].filename)
          /\ Extractable(upload[r])
          /\ \E i \in 1..Len(upload[r].body.pages) :
                 YieldsNothing(upload[r].body.pages[i]) )
        => /\ resp[r].status = 200
           /\ IsJoined(resp[r].body.text, upload[r].body.pages)

\* C7: every answer of GET /health is 200 with the fixed payload, whatever
\* happened before, and the step that answers changes nothing else.
C7_HealthFixedAndPure ==
    [][health' # health =>
          /\ health'.status = 200
          /\ health'.body = HealthyPayload
          /\ UNCHANGED parse_vars]_vars

C7_Witness ==
    /\ health.status = 200
    /\ health.after_error
    /\ \E r \in Slots : pc[r] = "responded" /\ resp[r].status = 500

\* C8: the stages of a request are a prefix of received, validated, read,
\* extracted, assembled, responded; a 200 goes through all of them; an error
\* response is reached from validated, read or extracted only.
C8_StagesInOrderErrorsBeforeAssembled ==
    \A r \in Slots :
        LET s == stages[r]
        IN  /\ pc[r] # "responded" => s = SubSeq(StageOrder, 1, Len(s))
            /\ (pc[r] = "responded" /\ resp[r].status = 200) => s = StageOrder
            /\ (pc[r] = "responded" /\ resp[r].status # 200) =>
                  /\ Len(s) >= 2
                  /\ SubSeq(s, 1, Len(s) - 1) = SubSeq(StageOrder, 1, Len(s) - 1)
                  /\ s[Len(s) - 1] \in {"validated", "read", "extracted"}

\* C9: a request gets no response before it ends and exactly one when it
\* ends: 400 exactly when the filename lacks the suffix, 500 exactly when
\* the suffix is there and a step raised, 200 otherwise; no step is retried.
C9_OneResponseThreeOutcomes ==
    \A r \in Slots :
        /\ pc[r] # "responded" => resp[r] = NoResponse
        /\ Len(raised[r]) <= 1
        /\ Count(calls[r], "read") <= 1
        /\ Count(calls[r], "PdfReader") <= 1
        /\ Count(calls[r], "extract_text") <= Len(upload[r].body.pages)
        /\ pc[r] = "responded" =>
              /\ Count(stages[r], "responded") = 1
              /\ resp[r].status \in {200, 400, 500}
              /\ resp[r].status = 400 <=> ~HasPdfSuffix(upload[r].filename)
              /\ resp[r].status = 500 <=>
                     (HasPdfSuffix(upload[r].filename) /\ raised[r] # <<>>)
              /\ resp[r].status = 200 <=>
                     (HasPdfSuffix(upload[r].filename) /\ raised[r] = <<>>)

C9_Witness ==
    \E r \in Slots :
        /\ pc[r] = "responded"
        /\ resp[r].status = 200
        /\ failed_before

\* C10: under every interleaving, the response of a /parse request is the
\* response its upload gets when handled alone, and the answer of /health is
\* the fixed one.
C10_ResponseIsOwnUploadsAlone ==
    /\ \A r \in Slots : pc[r] = "responded" => resp[r] = SoloResponse(upload[r])
    /\ health # NoHealth => (health.status = 200 /\ health.body = HealthyPayload)

C10_Witness ==
    \E r1, r2 \in Slots :
        /\ r1 # r2
        /\ pc[r1] = "responded"
        /\ resp[r1].status = 200
        /\ pc[r2] = "extracted"
        /\ page_num[Frame(r2)] = 1
        /\ upload[r2].body.pages # upload[r1].body.pages

====
